---- MODULE Spec2Model ----
(***************************************************************************)
(* Model of the dspy-kg scripts: the incremental merge loop and the        *)
(* SimpleAccumulator of landscape.py, the single-pass extractor of         *)
(* kg-anthropic.py, slugify and KnowledgeGraphProgram of kg-openai.py, the *)
(* page fetchers of landscape.py and landscape_schema.py and the schema /  *)
(* instance pipeline of landscape_schema.py with the files it writes.      *)
(*                                                                         *)
(* A Python str is a sequence of tokens (a token stands for one or more    *)
(* characters, "\n" is the newline); the empty str is <<>>.  A value that  *)
(* may be None is a set: {} is None and {v} is the value v.                *)
(***************************************************************************)
EXTENDS Integers, Sequences, FiniteSets, TLC

VARIABLES
  prog,           \* the entry point that is running ("none" before the call)
  stubbed,        \* TRUE: the language model is a deterministic stub
  memo,           \* the stub's answers so far: pairs <<key, output>>
  calls,          \* log of the external model calls, in the order made
  pages,          \* landscape.py: the pages argument
  output_format,  \* landscape.py / kg-anthropic.py: the output_format argument
  pc,             \* landscape.py: position in forward / build_landscape_knowledge_graph
  canonical_rdf,  \* landscape.py forward: canonical_rdf
  initial_rdfs,   \* landscape.py forward: initial_rdfs
  i,              \* landscape.py forward: index of the page the loop is at
  page_rdf,       \* landscape.py forward: page_rdf of the current page
  result,         \* landscape.py: the Prediction forward returned ({} before)
  ret,            \* landscape.py: what build_landscape_knowledge_graph returned ({} before)
  kg_in,          \* kg-anthropic.py: the arguments of extract_knowledge_graph
  kg_pc,          \* kg-anthropic.py: position in extract_knowledge_graph
  kg_result,      \* kg-anthropic.py: the Prediction forward returned ({} before)
  kg_ret,         \* kg-anthropic.py: the dict extract_knowledge_graph returned ({} before)
  urls,           \* crawl_pages_with_firecrawl: the urls argument
  fetched,        \* crawl_pages_with_firecrawl: the scrape_url calls made, with their outcomes
  crawled,        \* crawl_pages_with_firecrawl: the list pages
  cr_pc,          \* landscape.py crawl_pages_with_firecrawl: position
  sc_pc,          \* landscape_schema.py: position in build_landscape_schema_and_instances
  fwd_pages,      \* landscape_schema.py forward: the pages argument
  schema,         \* landscape_schema.py forward: schema ({} before it is extracted)
  instances,      \* landscape_schema.py forward: the dict instances, as <<url, rdf>> in insertion order
  fwd_j,          \* landscape_schema.py forward: index of the page the instance loop is at
  fwd_first,      \* landscape_schema.py: the Prediction of an earlier forward call over the same pages
  sc_ret,         \* landscape_schema.py: the dict build_landscape_schema_and_instances returned
  dirs,           \* landscape_schema.py: the directories os.makedirs has made
  files,          \* landscape_schema.py: the files written, as <<path, content>> in the order created
  sa_pc,          \* landscape.py SimpleAccumulator.forward: position
  sa_pages,       \* landscape.py SimpleAccumulator.forward: the pages argument
  sa_k,           \* landscape.py SimpleAccumulator.forward: index of the page the loop is at
  sa_graph,       \* landscape.py SimpleAccumulator.forward: graph
  sa_extracted,   \* landscape.py SimpleAccumulator.forward: extracted.rdf of the current page
  sa_final,       \* landscape.py SimpleAccumulator.forward: final_graph of the Prediction ({} before)
  slug_in,        \* kg-openai.py slugify: the argument ({} before the call)
  slug_out,       \* kg-openai.py slugify: the value returned ({} before the call)
  ko_pc,          \* kg-openai.py KnowledgeGraphProgram.forward: position
  ko_in,          \* kg-openai.py KnowledgeGraphProgram.forward: the arguments theme and text
  ko_triples,     \* kg-openai.py KnowledgeGraphProgram.forward: triples, as the extractor returned them
  ko_t,           \* kg-openai.py KnowledgeGraphProgram.forward: index of the triple the loop is at
  ko_added,       \* kg-openai.py KnowledgeGraphProgram.forward: the (s_uri, p_uri, o_node) added, in order
  ko_g,           \* kg-openai.py KnowledgeGraphProgram.forward: the triples of g
  ko_ret          \* kg-openai.py KnowledgeGraphProgram.forward: the statements of the text returned ({} before)

lmVars == <<stubbed, memo, calls>>
mergeVars == <<pages, output_format, pc, canonical_rdf, initial_rdfs, i, page_rdf, result, ret>>
kgVars == <<kg_in, kg_pc, kg_result, kg_ret>>
crawlVars == <<urls, fetched, crawled, cr_pc>>
schemaVars == <<sc_pc, fwd_pages, schema, instances, fwd_j, fwd_first, sc_ret, dirs, files>>
simpleVars == <<sa_pc, sa_pages, sa_k, sa_graph, sa_extracted, sa_final>>
slugVars == <<slug_in, slug_out>>
openaiVars == <<ko_pc, ko_in, ko_triples, ko_t, ko_added, ko_g, ko_ret>>
vars == <<prog, lmVars, mergeVars, kgVars, crawlVars, schemaVars, simpleVars, slugVars, openaiVars>>

\* what the steps of landscape.py's build_landscape_knowledge_graph leave alone
notMerge == <<kgVars, crawlVars, schemaVars, simpleVars, slugVars, openaiVars>>

\* what the steps of kg-anthropic.py leave alone
notKg == <<mergeVars, crawlVars, schemaVars, simpleVars, slugVars, openaiVars>>

\* what the steps of landscape.py's crawl_pages_with_firecrawl leave alone
notCrawl == <<lmVars, mergeVars, kgVars, schemaVars, simpleVars, slugVars, openaiVars>>

\* what the steps of landscape_schema.py leave alone, besides the crawl's variables
notSchema == <<mergeVars, kgVars, cr_pc, simpleVars, slugVars, openaiVars>>

\* what the steps of landscape.py's SimpleAccumulator leave alone
notSimple == <<mergeVars, kgVars, crawlVars, schemaVars, slugVars, openaiVars>>

\* what slugify leaves alone
notSlug == <<lmVars, mergeVars, kgVars, crawlVars, schemaVars, simpleVars, openaiVars>>

\* what the steps of kg-openai.py's KnowledgeGraphProgram leave alone
notOpenai == <<mergeVars, kgVars, crawlVars, schemaVars, simpleVars, slugVars>>

----------------------------------------------------------------------------
(* Bounds *)

MaxPages == 4
MaxUrls == 2
MaxFwdPages == 2
MaxSlugLen == 4
MaxTriples == 2

----------------------------------------------------------------------------
(* Strings *)

EmptyStr == <<>>

\* bool(s) of a str
Truthy(s) == s # EmptyStr

RECURSIVE Join(_, _)
\* sep.join(parts)
Join(sep, parts) ==
  IF parts = <<>> THEN EmptyStr
  ELSE IF Len(parts) = 1 THEN parts[1]
  ELSE parts[1] \o sep \o Join(sep, Tail(parts))

RECURSIVE Split(_, _)
\* s.split(tok): the pieces between the occurrences of tok, never an empty list
Split(s, tok) ==
  IF \A k \in 1..Len(s) : s[k] # tok THEN <<s>>
  ELSE LET k == CHOOSE k \in 1..Len(s) : s[k] = tok /\ \A j \in 1..(k - 1) : s[j] # tok
       IN <<SubSeq(s, 1, k - 1)>> \o Split(SubSeq(s, k + 1, Len(s)), tok)

----------------------------------------------------------------------------
(* The Turtle parser of the RDF library, as far as the scripts use it: a    *)
(* document is a list of lines; blank lines, comments and @prefix           *)
(* declarations carry no triple, a statement token carries one, anything    *)
(* else is a syntax error.  Leading blanks are ignored.                     *)

Statements == {":a :p :b .", ":c :p :d ."}

RECURSIVE Strip(_)
Strip(line) == IF line # <<>> /\ line[1] = " " THEN Strip(Tail(line)) ELSE line

LineOk(line) ==
  LET l == Strip(line)
  IN \/ l = <<>>
     \/ l[1] \in {"@prefix", "#"}
     \/ Len(l) = 1 /\ l[1] \in Statements

LineTriples(line) ==
  LET l == Strip(line)
  IN IF Len(l) = 1 /\ l[1] \in Statements THEN {l[1]} ELSE {}

\* g.parse(data=text, format="turtle") succeeds
ParseOk(text) == \A k \in 1..Len(Split(text, "\n")) : LineOk(Split(text, "\n")[k])

\* the triples of g after a successful g.parse(data=text, format="turtle")
ParseGraph(text) == UNION {LineTriples(Split(text, "\n")[k]) : k \in 1..Len(Split(text, "\n"))}

\* str(e) of the exception g.parse raises
ParseError == <<"Bad syntax">>

\* str(e) of the exception g.serialize raises for a format without a serializer
SerializeError == <<"No plugin registered">>

Formats == {"turtle", "xml"}

\* g.serialize(format=fmt): the triples in a fixed order, in the dialect fmt
Serialize(g, fmt) ==
  <<fmt>> \o (IF ":a :p :b ." \in g THEN <<"\n", ":a :p :b .">> ELSE <<>>)
          \o (IF ":c :p :d ." \in g THEN <<"\n", ":c :p :d .">> ELSE <<>>)

----------------------------------------------------------------------------
(* The external language model behind every dspy.ChainOfThought call.       *)

Domain == <<"AI", " ", "Writing", " ", "Tools">>

\* the inputs of one call: the signature and its (up to four) input fields
Key(kind, a, b, c, d) == <<kind, a, b, c, d>>

Known(key) == {m[2] : m \in {x \in memo : x[1] = key}}

\* the texts the model may answer a call with, out of outs
Answers(key, outs) == IF stubbed /\ Known(key) # {} THEN Known(key) ELSE outs

\* the call returned out: it is logged, and a stub remembers its answer
Returned(key, out) ==
  /\ calls' = Append(calls, [key |-> key, ok |-> TRUE, out |-> out])
  /\ memo' = IF stubbed THEN memo \cup {<<key, out>>} ELSE memo
  /\ UNCHANGED stubbed

\* the call raised: it is logged
Raised(key) ==
  /\ calls' = Append(calls, [key |-> key, ok |-> FALSE, out |-> EmptyStr])
  /\ UNCHANGED <<stubbed, memo>>

\* outputs the model is given to choose from, per signature
ExtractOuts == {EmptyStr, <<":a :p :b .">>}
SchemaOuts == {<<"@prefix", " : <s> .">>, <<"@prefix", " : <s> .", "\n", ":c :p :d .">>}
MergeOuts == {<<":a :p :b .", "\n", ":c :p :d .">>, <<"not turtle">>}

----------------------------------------------------------------------------
(* landscape.py: IncrementalLandscapeBuilder and                            *)
(* build_landscape_knowledge_graph                                          *)

\* faulty variant of SchemaThreshold: "if len(pages) >= 3"
SchemaThresholdInclusive == 3 - 1

\* "if len(pages) > 3"
SchemaThreshold == 3

\* "pages[:3]"
SampleSize == 3

\* the k-th page of the fixed catalogue the pages argument is cut from:
\* every second page carries metadata
Page(k) ==
  [url |-> <<"https://", ToString(k), ".", "com">>,
   text |-> <<"text", ToString(k)>>,
   metadata |-> IF k % 2 = 0 THEN <<"{'title': ", ToString(k), "}">> ELSE EmptyStr]

PageList(n) == [k \in 1..n |-> Page(k)]

\* pages[:n]
Take(s, n) == SubSeq(s, 1, IF n < Len(s) THEN n ELSE Len(s))

\* the call _extract_page_rdf makes for a page
ExtractKey(page) ==
  LET metadata_str == IF Truthy(page.metadata)
                      THEN <<"\n", "Page metadata: ">> \o page.metadata
                      ELSE EmptyStr
      full_text == page.text \o metadata_str
  IN Key("ExtractPageRDF", Domain, full_text, page.url, EmptyStr)

\* the call self.schema_inferrer(domain=..., sample_pages="\n---\n".join(rdfs))
InferKey(rdfs) ==
  Key("InitialSchemaInference", Domain, Join(<<"\n", "---", "\n">>, rdfs), EmptyStr, EmptyStr)

\* the call self.merger(canonical_rdf=..., new_page_rdf=..., source_url=..., domain=...)
MergeKey(canonical, new_page_rdf, page) ==
  Key("IncrementalRDFMerge", canonical, new_page_rdf, page.url, Domain)

\* faulty variant of Abort: the failed page is skipped and the loop goes on
AbortSkipsPage ==
  /\ pc' = "loop"
  /\ i' = i + 1
  /\ UNCHANGED <<pages, output_format, canonical_rdf, initial_rdfs, page_rdf, result, ret>>

\* an exception leaves forward and build_landscape_knowledge_graph: nothing is returned
Abort ==
  /\ pc' = "raised"
  /\ UNCHANGED <<pages, output_format, canonical_rdf, initial_rdfs, i, page_rdf, result, ret>>

\* build_landscape_knowledge_graph(domain, pages, output_format) is called and
\* forward starts: canonical_rdf = "", and the sampling branch is taken or not
BuildCall(n, fmt) ==
  /\ prog = "none"
  /\ prog' = "landscape"
  /\ UNCHANGED notMerge
  /\ pages' = PageList(n)
  /\ output_format' = fmt
  /\ canonical_rdf' = EmptyStr
  /\ initial_rdfs' = <<>>
  /\ i' = 1
  /\ pc' = IF Len(pages') > SchemaThreshold THEN "sample" ELSE "loop"
  /\ UNCHANGED <<page_rdf, result, ret, lmVars>>

\* one turn of "for page in pages[:3]": extract the page and keep its RDF
SampleExtract ==
  /\ prog = "landscape" /\ pc = "sample"
  /\ UNCHANGED notMerge
  /\ Len(initial_rdfs) < Len(Take(pages, SampleSize))
  /\ LET key == ExtractKey(pages[Len(initial_rdfs) + 1])
     IN \/ \E out \in Answers(key, ExtractOuts) :
             /\ Returned(key, out)
             /\ initial_rdfs' = Append(initial_rdfs, out)
             /\ UNCHANGED <<pages, output_format, pc, canonical_rdf, i, page_rdf, result, ret>>
        \/ Raised(key) /\ Abort
  /\ UNCHANGED prog

\* the schema inference call over the sampled RDF seeds canonical_rdf
InferSchema ==
  /\ prog = "landscape" /\ pc = "sample"
  /\ UNCHANGED notMerge
  /\ Len(initial_rdfs) = Len(Take(pages, SampleSize))
  /\ LET key == InferKey(initial_rdfs)
     IN \/ \E out \in Answers(key, SchemaOuts) :
             /\ Returned(key, out)
             /\ canonical_rdf' = out
             /\ pc' = "loop"
             /\ UNCHANGED <<pages, output_format, initial_rdfs, i, page_rdf, result, ret>>
        \/ Raised(key) /\ Abort
  /\ UNCHANGED prog

\* "for i, page in enumerate(pages)": extract the RDF of the next page
LoopExtract ==
  /\ prog = "landscape" /\ pc = "loop"
  /\ UNCHANGED notMerge
  /\ i <= Len(pages)
  /\ LET key == ExtractKey(pages[i])
     IN \/ \E out \in Answers(key, ExtractOuts) :
             /\ Returned(key, out)
             /\ page_rdf' = out
             /\ pc' = "merge"
             /\ UNCHANGED <<pages, output_format, canonical_rdf, initial_rdfs, i, result, ret>>
        \/ Raised(key) /\ Abort
  /\ UNCHANGED prog

\* merge the page's RDF into the canonical graph and move to the next page
LoopMergeOnto(canonical) ==
  /\ prog = "landscape" /\ pc = "merge"
  /\ UNCHANGED notMerge
  /\ LET key == MergeKey(canonical, page_rdf, pages[i])
     IN \/ \E out \in Answers(key, MergeOuts) :
             /\ Returned(key, out)
             /\ canonical_rdf' = out
             /\ i' = i + 1
             /\ pc' = "loop"
             /\ UNCHANGED <<pages, output_format, initial_rdfs, page_rdf, result, ret>>
        \/ Raised(key) /\ Abort
  /\ UNCHANGED prog

\* faulty variant of LoopMerge: the accumulated graph is not passed on
LoopMergeFromScratch == LoopMergeOnto(EmptyStr)

LoopMerge == LoopMergeOnto(canonical_rdf)

\* the loop is over: forward returns its Prediction
ForwardReturns(processed) ==
  /\ prog = "landscape" /\ pc = "loop"
  /\ UNCHANGED notMerge
  /\ i > Len(pages)
  /\ result' = {[canonical_graph |-> canonical_rdf, pages_processed |-> processed]}
  /\ pc' = "built"
  /\ UNCHANGED <<prog, lmVars, pages, output_format, canonical_rdf, initial_rdfs, i, page_rdf, ret>>

\* faulty variant of ForwardReturn: the loop index is reported as the count
ForwardReturnsIndex == ForwardReturns(i)

ForwardReturn == ForwardReturns(Len(pages))

\* faulty variant of BuildResult: the except branch returns no text
BuildResultDropsOutput(r, fmt) ==
  IF ParseOk(r.canonical_graph) /\ fmt \in Formats
  THEN [canonical_graph |-> IF fmt # "turtle"
                            THEN Serialize(ParseGraph(r.canonical_graph), fmt)
                            ELSE r.canonical_graph,
        stats |-> [total_triples |-> {Cardinality(ParseGraph(r.canonical_graph))},
                   pages_processed |-> {r.pages_processed},
                   error |-> {}]]
  ELSE [canonical_graph |-> EmptyStr,
        stats |-> [total_triples |-> {},
                   pages_processed |-> {},
                   error |-> {IF ParseOk(r.canonical_graph) THEN SerializeError ELSE ParseError}]]

\* what build_landscape_knowledge_graph returns for forward's Prediction r
BuildResult(r, fmt) ==
  IF ParseOk(r.canonical_graph) /\ fmt \in Formats
  THEN [canonical_graph |-> IF fmt # "turtle"
                            THEN Serialize(ParseGraph(r.canonical_graph), fmt)
                            ELSE r.canonical_graph,
        stats |-> [total_triples |-> {Cardinality(ParseGraph(r.canonical_graph))},
                   pages_processed |-> {r.pages_processed},
                   error |-> {}]]
  ELSE [canonical_graph |-> r.canonical_graph,
        stats |-> [total_triples |-> {},
                   pages_processed |-> {},
                   error |-> {IF ParseOk(r.canonical_graph) THEN SerializeError ELSE ParseError}]]

\* "Parse and validate", then return the dict
BuildReturn ==
  /\ prog = "landscape" /\ pc = "built"
  /\ UNCHANGED notMerge
  /\ \E r \in result : ret' = {BuildResult(r, output_format)}
  /\ pc' = "done"
  /\ UNCHANGED <<prog, lmVars, pages, output_format, canonical_rdf, initial_rdfs, i, page_rdf, result>>

----------------------------------------------------------------------------
(* kg-anthropic.py: ThemeBasedKnowledgeGraphExtractor and                   *)
(* extract_knowledge_graph                                                  *)

Theme == <<"Climate Change">>
KgTexts == {EmptyStr, <<"The Amazon rainforest">>}
KgOuts ==
  {EmptyStr, <<"@prefix", " : <c> .">>, <<"@prefix", " : <c> .", "\n", ":a :p :b .">>,
   <<"Here is the graph: ", ":a :p :b .">>}

\* the call self.extractor(theme=theme, text=text)
KgKey(theme, text) == Key("DirectRDFExtraction", theme, text, EmptyStr, EmptyStr)

\* faulty variant of Prediction: the except branch forgets the error
PredictionWithoutError(rdf_turtle) ==
  IF ParseOk(rdf_turtle)
  THEN [rdf_turtle |-> rdf_turtle, graph |-> {ParseGraph(rdf_turtle)}, error |-> {}]
  ELSE [rdf_turtle |-> rdf_turtle, graph |-> {}, error |-> {}]

\* faulty variant of Prediction: the text is normalised through the parsed graph
PredictionReserialized(rdf_turtle) ==
  IF ParseOk(rdf_turtle)
  THEN [rdf_turtle |-> Serialize(ParseGraph(rdf_turtle), "turtle"),
        graph |-> {ParseGraph(rdf_turtle)}, error |-> {}]
  ELSE [rdf_turtle |-> rdf_turtle, graph |-> {}, error |-> {ParseError}]

\* the Prediction forward builds from the model's text; error = {} stands for
\* a Prediction without the attribute error
Prediction(rdf_turtle) ==
  IF ParseOk(rdf_turtle)
  THEN [rdf_turtle |-> rdf_turtle, graph |-> {ParseGraph(rdf_turtle)}, error |-> {}]
  ELSE [rdf_turtle |-> rdf_turtle, graph |-> {}, error |-> {ParseError}]

\* bool(result.graph): None and a graph without triples are both false
GraphTruthy(graph) == \E g \in graph : g # {}

\* extract_knowledge_graph(theme, text, output_format) is called
KgCall(text, fmt) ==
  /\ prog = "none"
  /\ prog' = "kg"
  /\ kg_in' = [theme |-> Theme, text |-> text, output_format |-> fmt]
  /\ kg_pc' = "forward"
  /\ UNCHANGED <<kg_result, kg_ret, lmVars, notKg>>

\* forward: the model is called once and its text is parsed
KgForward ==
  /\ prog = "kg" /\ kg_pc = "forward"
  /\ LET key == KgKey(kg_in.theme, kg_in.text)
     IN \/ \E out \in Answers(key, KgOuts) :
             /\ Returned(key, out)
             /\ kg_result' = {Prediction(out)}
             /\ kg_pc' = "format"
        \/ Raised(key) /\ kg_pc' = "raised" /\ UNCHANGED kg_result
  /\ UNCHANGED <<prog, kg_in, kg_ret, notKg>>

\* "Handle different output formats": serializing raises for an unknown format
KgReturn ==
  /\ prog = "kg" /\ kg_pc = "format"
  /\ \E r \in kg_result :
       IF GraphTruthy(r.graph) /\ kg_in.output_format # "turtle"
       THEN IF kg_in.output_format \in Formats
            THEN /\ kg_ret' = {[rdf |-> Serialize(CHOOSE g \in r.graph : TRUE, kg_in.output_format),
                               format |-> kg_in.output_format,
                               graph |-> r.graph,
                               error |-> r.error]}
                 /\ kg_pc' = "done"
            ELSE kg_pc' = "raised" /\ UNCHANGED kg_ret
       ELSE /\ kg_ret' = {[rdf |-> r.rdf_turtle,
                          format |-> kg_in.output_format,
                          graph |-> r.graph,
                          error |-> r.error]}
            /\ kg_pc' = "done"
  /\ UNCHANGED <<prog, kg_in, kg_result, lmVars, notKg>>

----------------------------------------------------------------------------
(* crawl_pages_with_firecrawl of landscape.py and of landscape_schema.py    *)

\* the URLs the urls argument is made of
UrlPool == {<<"https://", "grammarly", ".", "com">>, <<"https://", "jasper", ".", "ai">>}

\* the lists of at most n elements of S
RECURSIVE ListsUpTo(_, _)
ListsUpTo(S, n) ==
  IF n = 0 THEN {<<>>}
  ELSE ListsUpTo(S, n - 1) \cup {Append(l, x) : l \in {m \in ListsUpTo(S, n - 1) : Len(m) = n - 1}, x \in S}

\* the markdown of the page at url
Content(url) == <<"About ">> \o url

Metadata(url) == <<"{'sourceURL': ">> \o url \o <<"}">>

\* what firecrawl_app.scrape_url(url, formats=['markdown']) may do: raise,
\* return nothing, return a ScrapeResponse object (markdown a text, empty or
\* None; with or without the attribute metadata), return a dict (content under
\* 'markdown', under 'content', under 'data', or no content), or return a
\* value of another type
Outcome(kind, markdown, content, data, metadata) ==
  [kind |-> kind, markdown |-> markdown, content |-> content, data |-> data, metadata |-> metadata]

ScrapeOutcomes(url) ==
  { Outcome("raise", {}, {}, {}, {}),
    Outcome("none", {}, {}, {}, {}),
    Outcome("object", {Content(url)}, {}, {}, {Metadata(url)}),
    Outcome("object", {Content(url)}, {}, {}, {}),
    Outcome("object", {}, {}, {}, {Metadata(url)}),
    Outcome("object", {EmptyStr}, {}, {}, {Metadata(url)}),
    Outcome("dict", {Content(url)}, {}, {}, {Metadata(url)}),
    Outcome("dict", {EmptyStr}, {Content(url)}, {}, {}),
    Outcome("dict", {}, {}, {Content(url)}, {}),
    Outcome("dict", {}, {}, {}, {Metadata(url)}),
    Outcome("other", {}, {}, {}, {}) }

\* x or y, for values that are None or a str
Or(x, y) == IF \E v \in x : Truthy(v) THEN x ELSE y

\* faulty variant of LandscapePages: the content is not tested before the page is appended
LandscapePagesKeepsEmpty(url, res) ==
  IF res.kind = "object"
  THEN {[url |-> url, text |-> res.markdown, metadata |-> res.metadata]}
  ELSE IF res.kind = "dict"
  THEN {[url |-> url, text |-> Or(Or(res.markdown, res.content), res.data),
         metadata |-> res.metadata]}
  ELSE {}

\* landscape.py: the pages one scrape result adds to the list (none or one)
LandscapePages(url, res) ==
  IF res.kind = "object"
  THEN IF \E c \in res.markdown : Truthy(c)
       THEN {[url |-> url, text |-> res.markdown, metadata |-> res.metadata]}
       ELSE {}
  ELSE IF res.kind = "dict"
  THEN LET content == Or(Or(res.markdown, res.content), res.data)
       IN IF \E c \in content : Truthy(c)
          THEN {[url |-> url, text |-> content, metadata |-> res.metadata]}
          ELSE {}
  ELSE {}

\* landscape_schema.py: the pages one scrape result adds to the list: every
\* object with the attribute markdown, whatever its value
SchemaPages(url, res) ==
  IF res.kind = "object"
  THEN {[url |-> url, text |-> res.markdown, metadata |-> res.metadata]}
  ELSE {}

\* s followed by the elements of the set S, which has at most one element
AppendAll(s, S) == IF S = {} THEN s ELSE Append(s, CHOOSE x \in S : TRUE)

\* landscape.py: crawl_pages_with_firecrawl(urls) is called
CrawlCall(us) ==
  /\ prog = "none"
  /\ prog' = "crawl"
  /\ urls' = us
  /\ fetched' = <<>>
  /\ crawled' = <<>>
  /\ cr_pc' = "crawl"
  /\ UNCHANGED notCrawl

\* landscape.py: one turn of "for url in urls"
CrawlStep ==
  /\ prog = "crawl" /\ cr_pc = "crawl"
  /\ Len(fetched) < Len(urls)
  /\ LET url == urls[Len(fetched) + 1]
     IN \E res \in ScrapeOutcomes(url) :
          /\ fetched' = Append(fetched, [url |-> url, res |-> res])
          /\ crawled' = AppendAll(crawled, LandscapePages(url, res))
  /\ UNCHANGED <<prog, urls, cr_pc, notCrawl>>

\* landscape.py: "return pages"
CrawlReturn ==
  /\ prog = "crawl" /\ cr_pc = "crawl"
  /\ Len(fetched) = Len(urls)
  /\ cr_pc' = "done"
  /\ UNCHANGED <<prog, urls, fetched, crawled, notCrawl>>

----------------------------------------------------------------------------
(* landscape_schema.py: SchemaBasedLandscapeBuilder and                     *)
(* build_landscape_schema_and_instances                                     *)

\* "p['text'][:1000]"
ContentLimit == 1000

\* the default output_dir
OutputDir == <<"output">>

SchemaTexts == {<<"@prefix", " : <s> .">>, <<"@prefix", " : <s> .", "\n", ":c :p :d .">>}
\* instance texts the model is given to choose from: plain statements, a text
\* with its own unindented @prefix line, and a text with an indented @prefix
\* line and its own import line
InstanceOuts ==
  {<<":a :p :b .">>,
   <<"@prefix", " : <s> .", "\n", ":c :p :d .">>,
   <<" ", "@prefix", " : <http://example.org/ai-writing-tools#> .", "\n",
     "<> owl:imports <./", "ai", "-", "writing", "-", "tools", "-schema.ttl", "> .">>}

\* the pages forward is called with directly: the third has the URL of the first
FwdPagePool ==
  { [url |-> <<"https://", "grammarly", ".", "com">>, text |-> {<<"Grammarly">>}, metadata |-> {}],
    [url |-> <<"https://", "jasper", ".", "ai">>, text |-> {<<"Jasper">>}, metadata |-> {}],
    [url |-> <<"https://", "grammarly", ".", "com">>, text |-> {<<"Grammarly Pro">>}, metadata |-> {}] }

\* the text of a page that has one
TextOf(page) == CHOOSE t \in page.text : TRUE

\* f"URL: {p['url']}\nContent: {p['text'][:1000]}..."
PageContent(p) ==
  <<"URL: ">> \o p.url \o <<"\n", "Content: ">> \o Take(TextOf(p), ContentLimit) \o <<"...">>

\* the call extract_schema makes
SchemaKey(ps) ==
  Key("ExtractCommonSchema", Domain,
      Join(<<"\n", "\n", "---PAGE---", "\n", "\n">>, [k \in 1..Len(ps) |-> PageContent(ps[k])]),
      EmptyStr, EmptyStr)

\* faulty variant of InstanceKey: the instances extracted so far travel with the schema
InstanceKeyAfterEarlierPages(sch, page) ==
  Key("ExtractInstanceData",
      sch \o Join(<<"\n">>, [n \in 1..Len(instances) |-> instances[n][2]]),
      Domain, TextOf(page), page.url)

\* the call extract_instances makes
InstanceKey(sch, page) == Key("ExtractInstanceData", sch, Domain, TextOf(page), page.url)

\* d[k] = v on a dict kept as the list of its <<key, value>> items
DictSet(d, k, v) ==
  IF \E n \in 1..Len(d) : d[n][1] = k
  THEN [n \in 1..Len(d) |-> IF d[n][1] = k THEN <<k, v>> ELSE d[n]]
  ELSE Append(d, <<k, v>>)

\* the permutations of 1..n
Perms(n) == {f \in [1..n -> 1..n] : \A a, b \in 1..n : f[a] = f[b] => a = b}

\* the urls arguments build_landscape_schema_and_instances is called with: the
\* lists of the crawl, and a list of two URLs that differ in "." and "/" only
SchemaUrlLists ==
  ListsUpTo(UrlPool, MaxUrls)
    \cup {<< <<"https://", "jasper", ".", "ai">>, <<"https://", "jasper", "/", "ai">> >>}

\* build_landscape_schema_and_instances(domain, urls) is called and starts to crawl
SchemaBuildCall(us) ==
  /\ prog = "none"
  /\ prog' = "schema"
  /\ urls' = us
  /\ fetched' = <<>>
  /\ crawled' = <<>>
  /\ sc_pc' = "crawl"
  /\ dirs' = dirs \cup {OutputDir}
  /\ UNCHANGED <<fwd_pages, schema, instances, fwd_j, fwd_first, sc_ret, lmVars, files, notSchema>>

\* landscape_schema.py: one turn of "for url in urls"
SchemaCrawlStep ==
  /\ prog = "schema" /\ sc_pc = "crawl"
  /\ Len(fetched) < Len(urls)
  /\ LET url == urls[Len(fetched) + 1]
     IN \E res \in ScrapeOutcomes(url) :
          /\ fetched' = Append(fetched, [url |-> url, res |-> res])
          /\ crawled' = AppendAll(crawled, SchemaPages(url, res))
  /\ UNCHANGED <<prog, urls, schemaVars, lmVars, notSchema>>

\* faulty variant of SchemaCrawlReturn: the builder is called whatever the crawl returned
SchemaCrawlReturnAlwaysBuilds ==
  /\ prog = "schema" /\ sc_pc = "crawl"
  /\ Len(fetched) = Len(urls)
  /\ fwd_pages' = crawled
  /\ sc_pc' = "schema"
  /\ UNCHANGED <<prog, urls, fetched, crawled, schema, instances, fwd_j, fwd_first, sc_ret, lmVars,
                 dirs, files, notSchema>>

\* the crawl returned: without pages the empty result is returned, otherwise
\* the builder is called with the pages
SchemaCrawlReturn ==
  /\ prog = "schema" /\ sc_pc = "crawl"
  /\ Len(fetched) = Len(urls)
  /\ IF crawled = <<>>
     THEN /\ sc_ret' = {[schema |-> EmptyStr, instances |-> <<>>, pages_processed |-> 0]}
          /\ sc_pc' = "done"
          /\ UNCHANGED fwd_pages
     ELSE /\ fwd_pages' = crawled
          /\ sc_pc' = "schema"
          /\ UNCHANGED sc_ret
  /\ UNCHANGED <<prog, urls, fetched, crawled, schema, instances, fwd_j, fwd_first, lmVars, dirs, files, notSchema>>

\* SchemaBasedLandscapeBuilder.forward(domain, pages) is called on its own,
\* with a deterministic stub behind it
FwdCall(ps) ==
  /\ prog = "none" /\ stubbed
  /\ prog' = "forward"
  /\ fwd_pages' = ps
  /\ sc_pc' = "schema"
  /\ UNCHANGED <<urls, fetched, crawled, schema, instances, fwd_j, fwd_first, sc_ret, lmVars, dirs, files, notSchema>>

\* forward, step 1: extract_schema; slicing the text of a page whose text is
\* None raises TypeError before the model is called
FwdExtractSchema ==
  /\ prog \in {"schema", "forward"} /\ sc_pc = "schema"
  /\ IF \E k \in 1..Len(fwd_pages) : fwd_pages[k].text = {}
     THEN /\ sc_pc' = "TypeError"
          /\ UNCHANGED <<schema, instances, fwd_j, lmVars>>
     ELSE LET key == SchemaKey(fwd_pages)
          IN \/ \E out \in Answers(key, SchemaTexts) :
                  /\ Returned(key, out)
                  /\ schema' = {out}
                  /\ instances' = <<>>
                  /\ fwd_j' = 1
                  /\ sc_pc' = "instances"
             \/ Raised(key) /\ sc_pc' = "raised" /\ UNCHANGED <<schema, instances, fwd_j>>
  /\ UNCHANGED <<prog, urls, fetched, crawled, fwd_pages, fwd_first, sc_ret, dirs, files, notSchema>>

\* forward, step 2: one turn of "for page in pages"
FwdExtractInstances ==
  /\ prog \in {"schema", "forward"} /\ sc_pc = "instances"
  /\ fwd_j <= Len(fwd_pages)
  /\ LET page == fwd_pages[fwd_j]
         key == InstanceKey(CHOOSE sch \in schema : TRUE, page)
     IN \/ \E out \in Answers(key, InstanceOuts) :
             /\ Returned(key, out)
             /\ instances' = DictSet(instances, page.url, out)
             /\ fwd_j' = fwd_j + 1
             /\ UNCHANGED sc_pc
        \/ Raised(key) /\ sc_pc' = "raised" /\ UNCHANGED <<instances, fwd_j>>
  /\ UNCHANGED <<prog, urls, fetched, crawled, fwd_pages, schema, fwd_first, sc_ret, dirs, files, notSchema>>

\* forward returns Prediction(schema=schema, instances=instances)
FwdReturn ==
  /\ prog \in {"schema", "forward"} /\ sc_pc = "instances"
  /\ fwd_j > Len(fwd_pages)
  /\ sc_pc' = "returned"
  /\ UNCHANGED <<prog, urls, fetched, crawled, fwd_pages, schema, instances, fwd_j, fwd_first, sc_ret,
                 lmVars, dirs, files, notSchema>>

\* forward is called again, on a permutation of the same pages and with the
\* same stub; the first Prediction is kept for comparison
FwdAgain(perm) ==
  /\ prog = "forward" /\ sc_pc = "returned"
  /\ fwd_first = {}
  /\ fwd_first' = {[schema |-> schema, instances |-> instances]}
  /\ fwd_pages' = [k \in 1..Len(fwd_pages) |-> fwd_pages[perm[k]]]
  /\ schema' = {}
  /\ instances' = <<>>
  /\ sc_pc' = "schema"
  /\ UNCHANGED <<prog, urls, fetched, crawled, fwd_j, sc_ret, lmVars, dirs, files, notSchema>>

\* str.lower() of one token
LowerTok(t) ==
  CASE t = "AI" -> "ai"
    [] t = "Writing" -> "writing"
    [] t = "Tools" -> "tools"
    [] OTHER -> t

\* s.lower()
Lower(s) == [k \in 1..Len(s) |-> LowerTok(s[k])]

RECURSIVE Replace(_, _, _)
\* s.replace(old, new), old being one token
Replace(s, old, new) ==
  IF s = <<>> THEN <<>>
  ELSE (IF Head(s) = old THEN new ELSE <<Head(s)>>) \o Replace(Tail(s), old, new)

\* os.path.join(output_dir, name)
PathJoin(dir, name) == dir \o <<"/">> \o name

\* f"{domain.lower().replace(' ', '-')}-schema.ttl"
SchemaFilename == Replace(Lower(Domain), " ", <<"-">>) \o <<"-schema.ttl">>

\* f"{domain.lower().replace(' ', '-')}-all-instances.ttl"
MergedFilename == Replace(Lower(Domain), " ", <<"-">>) \o <<"-all-instances.ttl">>

\* faulty variant of InstanceFilename: the path of the URL is cut off, the host names the file
InstanceFilenameOfHost(url) == SubSeq(Replace(url, "https://", <<>>), 1, 1) \o <<".ttl">>

\* url.replace("https://", "").replace("/", "_").replace(".", "_") + ".ttl"
InstanceFilename(url) ==
  Replace(Replace(Replace(url, "https://", <<>>), "/", <<"_">>), ".", <<"_">>) \o <<".ttl">>

\* the import line of the instance files and of the merged file
ImportLine == <<"<> owl:imports <./">> \o SchemaFilename \o <<"> .">>

\* the text of one instance file
InstanceContent(instance_rdf) ==
  <<"@prefix", " : <http://example.org/ai-writing-tools#> .", "\n",
    "@prefix", " owl: <http://www.w3.org/2002/07/owl#> .", "\n",
    "\n",
    "#", " This instance file imports the schema", "\n">>
  \o ImportLine \o
  <<"\n",
    "\n",
    "#", " Instance data that conforms to the imported schema", "\n">>
  \o instance_rdf

\* line.startswith('@prefix')
StartsWithPrefix(line) == line # <<>> /\ line[1] = "@prefix"

RECURSIVE KeptLines(_)
\* the lines of an instance text that the merged file takes over, each with its newline
KeptLines(lines) ==
  IF lines = <<>> THEN <<>>
  ELSE (IF StartsWithPrefix(Head(lines)) THEN <<>> ELSE Head(lines) \o <<"\n">>)
       \o KeptLines(Tail(lines))

RECURSIVE MergedBody(_)
\* the part of the merged file written by "for url, instance_rdf in result.instances.items()"
MergedBody(items) ==
  IF items = <<>> THEN <<>>
  ELSE <<"\n", "### From ">> \o items[1][1] \o <<" ###", "\n">>
       \o KeptLines(Split(items[1][2], "\n"))
       \o MergedBody(Tail(items))

\* the text of the merged file
MergedContent(items) ==
  <<"@prefix", " : <http://example.org/ai-writing-tools#> .", "\n",
    "@prefix", " rdfs: <http://www.w3.org/2000/01/rdf-schema#> .", "\n",
    "@prefix", " rdf: <http://www.w3.org/1999/02/22-rdf-syntax-ns#> .", "\n",
    "@prefix", " xsd: <http://www.w3.org/2001/XMLSchema#> .", "\n",
    "@prefix", " prov: <http://www.w3.org/ns/prov#> .", "\n",
    "@prefix", " owl: <http://www.w3.org/2002/07/owl#> .", "\n", "\n",
    "#", " This file imports the schema", "\n">>
  \o ImportLine \o
  <<"\n",
    "\n", "### All Instance Data ###", "\n">>
  \o MergedBody(items)

RECURSIVE WriteInstances(_, _)
\* the files after "for url, instance_rdf in result.instances.items()" has written its files
WriteInstances(fs, items) ==
  IF items = <<>> THEN fs
  ELSE WriteInstances(DictSet(fs, PathJoin(OutputDir, InstanceFilename(items[1][1])),
                              InstanceContent(items[1][2])),
                      Tail(items))

\* build_landscape_schema_and_instances saves the schema, the instance files and
\* the merged file, and returns the schema, the instances and the number of
\* crawled pages
SchemaBuildReturn ==
  /\ prog = "schema" /\ sc_pc = "returned"
  /\ files' = DictSet(WriteInstances(DictSet(files, PathJoin(OutputDir, SchemaFilename),
                                             CHOOSE sch \in schema : TRUE),
                                     instances),
                      PathJoin(OutputDir, MergedFilename), MergedContent(instances))
  /\ sc_ret' = {[schema |-> CHOOSE sch \in schema : TRUE,
                 instances |-> instances,
                 pages_processed |-> Len(crawled)]}
  /\ sc_pc' = "done"
  /\ UNCHANGED <<prog, urls, fetched, crawled, fwd_pages, schema, instances, fwd_j, fwd_first,
                 lmVars, dirs, notSchema>>

----------------------------------------------------------------------------

(* kg-openai.py: slugify.  Here a str is the sequence of its characters.    *)

AsciiUpper ==
  <<"A", "B", "C", "D", "E", "F", "G", "H", "I", "J", "K", "L", "M",
    "N", "O", "P", "Q", "R", "S", "T", "U", "V", "W", "X", "Y", "Z">>

AsciiLower ==
  <<"a", "b", "c", "d", "e", "f", "g", "h", "i", "j", "k", "l", "m",
    "n", "o", "p", "q", "r", "s", "t", "u", "v", "w", "x", "y", "z">>

AsciiDigits == {"0", "1", "2", "3", "4", "5", "6", "7", "8", "9"}

\* the characters str.strip() removes
Whitespace == {" ", "\t", "\n"}

\* the characters the class [a-zA-Z0-9] matches
IsAlnum(c) ==
  \/ \E k \in 1..Len(AsciiUpper) : AsciiUpper[k] = c
  \/ \E k \in 1..Len(AsciiLower) : AsciiLower[k] = c
  \/ c \in AsciiDigits

\* c.lower()
LowerChar(c) ==
  IF \E k \in 1..Len(AsciiUpper) : AsciiUpper[k] = c
  THEN AsciiLower[CHOOSE k \in 1..Len(AsciiUpper) : AsciiUpper[k] = c]
  ELSE c

\* value.lower()
LowerChars(value) == [k \in 1..Len(value) |-> LowerChar(value[k])]

RECURSIVE LStrip(_, _)
\* value.lstrip(chars)
LStrip(value, chars) ==
  IF value # <<>> /\ Head(value) \in chars THEN LStrip(Tail(value), chars) ELSE value

RECURSIVE RStrip(_, _)
\* value.rstrip(chars)
RStrip(value, chars) ==
  IF value # <<>> /\ value[Len(value)] \in chars
  THEN RStrip(SubSeq(value, 1, Len(value) - 1), chars)
  ELSE value

\* faulty variant of StripChars: nothing is removed
StripNothing(value, chars) == value

\* value.strip() and value.strip("_")
StripChars(value, chars) == RStrip(LStrip(value, chars), chars)

RECURSIVE SkipNonAlnum(_)
\* value without its leading characters outside [a-zA-Z0-9]
SkipNonAlnum(value) ==
  IF value # <<>> /\ ~IsAlnum(Head(value)) THEN SkipNonAlnum(Tail(value)) ELSE value

RECURSIVE slug_rx_sub(_)
\* _slug_rx.sub("_", value): every leftmost longest match of [^a-zA-Z0-9]+ becomes "_"
slug_rx_sub(value) ==
  IF value = <<>> THEN <<>>
  ELSE IF IsAlnum(Head(value)) THEN <<Head(value)>> \o slug_rx_sub(Tail(value))
  ELSE <<"_">> \o slug_rx_sub(SkipNonAlnum(value))

RECURSIVE SkipUnderscores(_)
\* value without its leading underscores
SkipUnderscores(value) ==
  IF value # <<>> /\ Head(value) = "_" THEN SkipUnderscores(Tail(value)) ELSE value

RECURSIVE CollapseUnderscores(_)
\* re.sub(r"_{2,}", "_", value)
CollapseUnderscores(value) ==
  IF value = <<>> THEN <<>>
  ELSE IF Head(value) = "_" THEN <<"_">> \o CollapseUnderscores(SkipUnderscores(value))
  ELSE <<Head(value)>> \o CollapseUnderscores(Tail(value))

slugify(value) ==
  StripChars(CollapseUnderscores(slug_rx_sub(LowerChars(StripChars(value, Whitespace)))), {"_"})

\* the characters the arguments of slugify are made of
SlugChars == {"A", "b", "7", " ", "\t", "!", "_"}

\* "AI Writing Tools!"
SlugExample ==
  <<"A", "I", " ", "W", "r", "i", "t", "i", "n", "g", " ", "T", "o", "o", "l", "s", "!">>

\* slugify(value) is called and returns
SlugifyCall ==
  /\ prog = "none"
  /\ prog' = "slugify"
  /\ \E value \in ListsUpTo(SlugChars, MaxSlugLen) \cup {SlugExample} :
       /\ slug_in' = {value}
       /\ slug_out' = {slugify(value)}
  /\ UNCHANGED notSlug

----------------------------------------------------------------------------
(* kg-openai.py: KnowledgeGraphProgram                                      *)

\* the default base_namespace
Base == <<"http://example.org/">>

\* the nodes of rdflib
URIRef(value) == [kind |-> "URIRef", value |-> value]
Literal(value) == [kind |-> "Literal", value |-> value]

\* the theme and the text forward is called with
KgpTheme == <<"A", "I">>
KgpText == <<"GPT is a big LM">>

\* the objects of the triples the extractor may return: without whitespace,
\* with a space, with a tab
ObjectPool == {<<"L", "M">>, <<"b", "i", "g", " ", "L", "M">>, <<"L", "\t", "M">>}

TriplePool ==
  {[subject |-> <<"G", "P", "T">>, predicate |-> <<"i", "s", " ", "a">>, object |-> o] :
     o \in ObjectPool}

\* the call self.extractor(theme=theme, text=text)
TripleKey(theme, text) == Key("TripleExtractor", theme, text, EmptyStr, EmptyStr)

\* URIRef(str(self.base) + "relatesTo")
relates_to == URIRef(Base \o <<"relatesTo">>)

\* URIRef(str(self.base) + slugify(theme))
theme_uri == URIRef(Base \o slugify(ko_in.theme))

\* Literal(t.object) if " " in t.object else URIRef(str(self.base) + slugify(t.object))
o_node(t) ==
  IF \E k \in 1..Len(t.object) : t.object[k] = " "
  THEN Literal(t.object)
  ELSE URIRef(Base \o slugify(t.object))

\* a node as the Turtle text shows it
NodeText(n) ==
  IF n.kind = "URIRef" THEN <<"<">> \o n.value \o <<">">> ELSE <<"\"">> \o n.value \o <<"\"">>

\* g.serialize(format="turtle"): the statements of the text, one per triple
SerializeTurtle(g) ==
  {NodeText(x[1]) \o <<" ">> \o NodeText(x[2]) \o <<" ">> \o NodeText(x[3]) \o <<" .">> : x \in g}

\* KnowledgeGraphProgram().forward(theme, text) is called
KgpCall ==
  /\ prog = "none"
  /\ prog' = "openai"
  /\ ko_in' = [theme |-> KgpTheme, text |-> KgpText]
  /\ ko_pc' = "extract"
  /\ UNCHANGED <<ko_triples, ko_t, ko_added, ko_g, ko_ret, lmVars, notOpenai>>

\* "1. Extract triples with DSPy", then the graph is made and gets the title of the theme
KgpExtract ==
  /\ prog = "openai" /\ ko_pc = "extract"
  /\ LET key == TripleKey(ko_in.theme, ko_in.text)
     IN \/ \E out \in Answers(key, ListsUpTo(TriplePool, MaxTriples)) :
             /\ Returned(key, out)
             /\ ko_triples' = out
             /\ ko_g' = {<<theme_uri, URIRef(<<"http://purl.org/dc/terms/title">>),
                           Literal(ko_in.theme)>>}
             /\ ko_t' = 1
             /\ ko_pc' = "loop"
        \/ Raised(key) /\ ko_pc' = "raised" /\ UNCHANGED <<ko_triples, ko_g, ko_t>>
  /\ UNCHANGED <<prog, ko_in, ko_added, ko_ret, notOpenai>>

\* one turn of "for t in triples"
KgpAddTriple ==
  /\ prog = "openai" /\ ko_pc = "loop"
  /\ ko_t <= Len(ko_triples)
  /\ LET t == ko_triples[ko_t]
         s_uri == URIRef(Base \o slugify(t.subject))
         p_uri == URIRef(Base \o slugify(t.predicate))
     IN /\ ko_added' = Append(ko_added, <<s_uri, p_uri, o_node(t)>>)
        /\ ko_g' = ko_g \cup {<<s_uri, p_uri, o_node(t)>>, <<theme_uri, relates_to, s_uri>>}
  /\ ko_t' = ko_t + 1
  /\ UNCHANGED <<prog, ko_pc, ko_in, ko_triples, ko_ret, lmVars, notOpenai>>

\* "return g.serialize(format="turtle")"
KgpReturn ==
  /\ prog = "openai" /\ ko_pc = "loop"
  /\ ko_t > Len(ko_triples)
  /\ ko_ret' = {SerializeTurtle(ko_g)}
  /\ ko_pc' = "done"
  /\ UNCHANGED <<prog, ko_in, ko_triples, ko_t, ko_added, ko_g, lmVars, notOpenai>>

----------------------------------------------------------------------------
(* landscape.py: SimpleAccumulator                                          *)

\* what the merge call of SimpleAccumulator may answer: also the empty text
SimpleMergeOuts == MergeOuts \cup {EmptyStr}

\* the call self.extractor(domain=..., text=text_with_metadata, url=page['url'])
SimpleExtractKey(page) ==
  LET text_with_metadata == IF Truthy(page.metadata)
                            THEN page.text \o <<"\n", "Page metadata: ">> \o page.metadata
                            ELSE page.text
  IN Key("SimpleExtractRDF", Domain, text_with_metadata, page.url, EmptyStr)

\* the call self.merger(current_graph=graph, new_content=extracted.rdf, domain=domain)
SimpleMergeKey(graph, new_content) ==
  Key("SimpleMergeRDF", graph, new_content, Domain, EmptyStr)

\* SimpleAccumulator().forward(domain, pages) is called: graph = ""
SimpleCall(n) ==
  /\ prog = "none"
  /\ prog' = "simple"
  /\ sa_pages' = PageList(n)
  /\ sa_graph' = EmptyStr
  /\ sa_k' = 1
  /\ sa_pc' = "extract"
  /\ UNCHANGED <<sa_extracted, sa_final, lmVars, notSimple>>

\* one turn of "for page in pages", first half: the extraction call
SimpleExtract ==
  /\ prog = "simple" /\ sa_pc = "extract"
  /\ sa_k <= Len(sa_pages)
  /\ LET key == SimpleExtractKey(sa_pages[sa_k])
     IN \/ \E out \in Answers(key, ExtractOuts) :
             /\ Returned(key, out)
             /\ sa_extracted' = out
             /\ sa_pc' = "merge"
        \/ Raised(key) /\ sa_pc' = "raised" /\ UNCHANGED sa_extracted
  /\ UNCHANGED <<prog, sa_pages, sa_k, sa_graph, sa_final, notSimple>>

\* one turn of "for page in pages", second half: "if graph:" the merge call
\* replaces graph, "else:" the extracted text becomes graph
SimpleMergeWhen(nonempty) ==
  /\ prog = "simple" /\ sa_pc = "merge"
  /\ IF nonempty
     THEN LET key == SimpleMergeKey(sa_graph, sa_extracted)
          IN \/ \E out \in Answers(key, SimpleMergeOuts) :
                  /\ Returned(key, out)
                  /\ sa_graph' = out
                  /\ sa_k' = sa_k + 1
                  /\ sa_pc' = "extract"
             \/ Raised(key) /\ sa_pc' = "raised" /\ UNCHANGED <<sa_graph, sa_k>>
     ELSE /\ sa_graph' = sa_extracted
          /\ sa_k' = sa_k + 1
          /\ sa_pc' = "extract"
          /\ UNCHANGED lmVars
  /\ UNCHANGED <<prog, sa_pages, sa_extracted, sa_final, notSimple>>

\* faulty variant of SimpleMerge: the merge call is made whatever graph holds
SimpleMergeAlways == SimpleMergeWhen(TRUE)

SimpleMerge == SimpleMergeWhen(Truthy(sa_graph))

\* "return dspy.Prediction(final_graph=graph)"
SimpleReturn ==
  /\ prog = "simple" /\ sa_pc = "extract"
  /\ sa_k > Len(sa_pages)
  /\ sa_final' = {sa_graph}
  /\ sa_pc' = "done"
  /\ UNCHANGED <<prog, sa_pages, sa_k, sa_graph, sa_extracted, lmVars, notSimple>>

----------------------------------------------------------------------------

Init ==
  /\ prog = "none"
  /\ stubbed \in BOOLEAN
  /\ memo = {}
  /\ calls = <<>>
  /\ pages = <<>>
  /\ output_format = "turtle"
  /\ pc = "idle"
  /\ canonical_rdf = EmptyStr
  /\ initial_rdfs = <<>>
  /\ i = 0
  /\ page_rdf = EmptyStr
  /\ result = {}
  /\ ret = {}
  /\ kg_in = [theme |-> EmptyStr, text |-> EmptyStr, output_format |-> "turtle"]
  /\ kg_pc = "idle"
  /\ kg_result = {}
  /\ kg_ret = {}
  /\ urls = <<>>
  /\ fetched = <<>>
  /\ crawled = <<>>
  /\ cr_pc = "idle"
  /\ sc_pc = "idle"
  /\ fwd_pages = <<>>
  /\ schema = {}
  /\ instances = <<>>
  /\ fwd_j = 0
  /\ fwd_first = {}
  /\ sc_ret = {}
  /\ dirs = {}
  /\ files = <<>>
  /\ sa_pc = "idle"
  /\ sa_pages = <<>>
  /\ sa_k = 0
  /\ sa_graph = EmptyStr
  /\ sa_extracted = EmptyStr
  /\ sa_final = {}
  /\ slug_in = {}
  /\ slug_out = {}
  /\ ko_pc = "idle"
  /\ ko_in = [theme |-> EmptyStr, text |-> EmptyStr]
  /\ ko_triples = <<>>
  /\ ko_t = 0
  /\ ko_added = <<>>
  /\ ko_g = {}
  /\ ko_ret = {}

Next ==
  \/ \E n \in 0..MaxPages, fmt \in Formats \cup {"bogus"} : BuildCall(n, fmt)
  \/ SampleExtract
  \/ InferSchema
  \/ LoopExtract
  \/ LoopMerge
  \/ ForwardReturn
  \/ BuildReturn
  \/ \E text \in KgTexts, fmt \in Formats \cup {"bogus"} : KgCall(text, fmt)
  \/ KgForward
  \/ KgReturn
  \/ \E us \in ListsUpTo(UrlPool, MaxUrls) : CrawlCall(us)
  \/ CrawlStep
  \/ CrawlReturn
  \/ \E us \in SchemaUrlLists : SchemaBuildCall(us)
  \/ SchemaCrawlStep
  \/ SchemaCrawlReturn
  \/ \E ps \in ListsUpTo(FwdPagePool, MaxFwdPages) : FwdCall(ps)
  \/ FwdExtractSchema
  \/ FwdExtractInstances
  \/ FwdReturn
  \/ \E perm \in Perms(Len(fwd_pages)) : FwdAgain(perm)
  \/ SchemaBuildReturn
  \/ \E n \in 0..MaxPages : SimpleCall(n)
  \/ SimpleExtract
  \/ SimpleMerge
  \/ SimpleReturn
  \/ SlugifyCall
  \/ KgpCall
  \/ KgpExtract
  \/ KgpAddTriple
  \/ KgpReturn

Spec == Init /\ [][Next]_vars

----------------------------------------------------------------------------
(* Reading the call log *)

\* the positions in the log of the calls of one signature
Idx(kind) == {k \in 1..Len(calls) : calls[k].key[1] = kind}

\* the positions of the calls made with exactly these inputs
IdxOfKey(key) == {k \in 1..Len(calls) : calls[k].key = key}

\* the rank of position k among the positions S
Rank(S, k) == Cardinality({m \in S : m <= k})

\* the position of rank j among the positions S
AtRank(S, j) == CHOOSE k \in S : Rank(S, k) = j

\* the answer the deterministic stub gave for these inputs
StubAnswer(key) == CHOOSE out \in Known(key) : TRUE

\* the canonical text the first merge call starts from: the inferred schema
\* when there was a schema inference call, the empty text otherwise
Seed ==
  IF Idx("InitialSchemaInference") = {} THEN EmptyStr
  ELSE calls[AtRank(Idx("InitialSchemaInference"), 1)].out

RECURSIVE StubFold(_, _)
\* m(...m(m(c0, e(p1), url1, domain), e(p2), url2, domain)..., e(pj), urlj, domain)
StubFold(c0, j) ==
  IF j = 0 THEN c0
  ELSE StubAnswer(<<"IncrementalRDFMerge", StubFold(c0, j - 1),
                    StubAnswer(ExtractKey(pages[j])), pages[j].url, Domain>>)

----------------------------------------------------------------------------
(* Claims about the incremental merge loop *)

\* C1: the j-th merge call is made for the j-th page, right after that page's
\* extraction call and with its output as new_page_rdf, and receives as
\* canonical_rdf the output of the (j-1)-th merge call (the seed for j = 1);
\* forward returns the last merge output; with a deterministic stub the
\* returned canonical_graph is the left fold of the stub over the pages.
C1_MergeIsLeftFold ==
  prog = "landscape" =>
    /\ \A k \in Idx("IncrementalRDFMerge") :
         LET j == Rank(Idx("IncrementalRDFMerge"), k)
             before == IF j = 1 THEN Seed
                       ELSE calls[AtRank(Idx("IncrementalRDFMerge"), j - 1)].out
         IN /\ j <= Len(pages)
            /\ k > 1
            /\ calls[k - 1].ok
            /\ calls[k - 1].key[1] = "ExtractPageRDF"
            /\ calls[k - 1].key[4] = pages[j].url
            /\ calls[k].key =
                 <<"IncrementalRDFMerge", before, calls[k - 1].out, pages[j].url, Domain>>
            /\ calls[k].ok /\ k = Len(calls) => canonical_rdf = calls[k].out
    /\ result # {} =>
         /\ Cardinality(Idx("IncrementalRDFMerge")) = Len(pages)
         /\ \A r \in result :
              /\ Len(pages) = 0 => r.canonical_graph = EmptyStr
              /\ Len(pages) > 0 =>
                   r.canonical_graph =
                     calls[AtRank(Idx("IncrementalRDFMerge"), Len(pages))].out
              /\ stubbed => r.canonical_graph = StubFold(Seed, Len(pages))

C1_Witness ==
  /\ prog = "landscape" /\ pc = "done" /\ stubbed
  /\ Len(pages) >= 4
  /\ \E r \in result : r.canonical_graph = StubFold(Seed, Len(pages)) /\ ParseOk(r.canonical_graph)
  /\ \E k \in Idx("IncrementalRDFMerge") : ~ParseOk(calls[k].out)

\* C2: a schema inference call is made only for more than 3 pages, then once,
\* as the 4th call, over the joined outputs of the extraction calls of pages
\* 1..3; the first merge call starts from its output, and from the empty text
\* when there are at most 3 pages.
C2_SchemaIffMoreThanThree ==
  prog = "landscape" =>
    LET S == Idx("InitialSchemaInference")
        M == Idx("IncrementalRDFMerge")
    IN /\ Cardinality(S) <= 1
       /\ Len(pages) <= 3 => S = {}
       /\ S # {} =>
            /\ Len(pages) > 3
            /\ S = {4}
            /\ \A k \in 1..3 : calls[k].ok /\ calls[k].key = ExtractKey(pages[k])
            /\ calls[4].key =
                 <<"InitialSchemaInference", Domain,
                   calls[1].out \o <<"\n", "---", "\n">> \o calls[2].out
                     \o <<"\n", "---", "\n">> \o calls[3].out,
                   EmptyStr, EmptyStr>>
       /\ (M # {} \/ pc \in {"loop", "merge", "built", "done"}) /\ Len(pages) > 3 =>
            S = {4} /\ calls[4].ok
       /\ M # {} =>
            calls[AtRank(M, 1)].key[2] = IF Len(pages) > 3 THEN calls[4].out ELSE EmptyStr

C2_Witness ==
  /\ prog = "landscape" /\ Len(pages) = 4
  /\ Idx("InitialSchemaInference") = {4}
  /\ Idx("IncrementalRDFMerge") # {}
  /\ calls[AtRank(Idx("IncrementalRDFMerge"), 1)].key[2] = calls[4].out

\* C3: a call that raised is the last call of the run (nothing is extracted,
\* merged or retried after it), the run is left in the raised state, and
\* neither forward nor build_landscape_knowledge_graph has returned anything.
C3_FailureAbortsRun ==
  prog = "landscape" =>
    /\ \A k \in 1..Len(calls) :
         ~calls[k].ok => k = Len(calls) /\ pc = "raised" /\ result = {} /\ ret = {}
    /\ pc = "raised" => calls # <<>> /\ ~calls[Len(calls)].ok
    /\ ret # {} => \A r \in ret : r.stats.error # {} => \A k \in 1..Len(calls) : calls[k].ok

C3_Witness ==
  /\ prog = "landscape" /\ pc = "raised"
  /\ calls[Len(calls)].key[1] = "IncrementalRDFMerge"
  /\ i < Len(pages)
  /\ ret = {}

\* C4: when the run is done, every page has been the subject of exactly one
\* extraction call and of exactly one merge call.
C4_EachPageExtractedOnce ==
  prog = "landscape" /\ pc = "done" =>
    \A j \in 1..Len(pages) :
      /\ Cardinality(IdxOfKey(ExtractKey(pages[j]))) = 1
      /\ Cardinality({k \in Idx("IncrementalRDFMerge") : calls[k].key[4] = pages[j].url}) = 1

\* C5: once forward has returned, its result is the pair of the last merge
\* output (the empty text for no pages) and the number of pages, which is the
\* number of merge calls made; every call returned.
C5_DoneReturnsPair ==
  prog = "landscape" /\ pc \in {"built", "done"} =>
    LET M == Idx("IncrementalRDFMerge")
    IN /\ \A k \in 1..Len(calls) : calls[k].ok
       /\ Cardinality(M) = Len(pages)
       /\ result = {[canonical_graph |-> IF Len(pages) = 0 THEN EmptyStr
                                         ELSE calls[Len(calls)].out,
                     pages_processed |-> Len(pages)]}
       /\ Len(pages) > 0 => Len(calls) \in M

C5_Witness ==
  /\ prog = "landscape" /\ pc = "built" /\ Len(pages) = 4
  /\ \E r \in result : r.pages_processed = 4 /\ r.canonical_graph = <<"not turtle">>

----------------------------------------------------------------------------
(* Claims about the single-pass extractor *)

\* C6 as stated: the returned dict holds a non-empty fragment together with a
\* graph, or an error; never neither.
C6_NonEmptyFragmentOrError ==
  prog = "kg" =>
    \A r \in kg_ret : (Truthy(r.rdf) /\ r.graph # {}) \/ r.error # {}

\* C6 as amended: the returned dict holds a graph and no error, or an error
\* and no graph, never neither; the fragment is the model's text, empty only
\* when the model answered with the empty text, and then the graph has no
\* triple.
C6_GraphOrError ==
  prog = "kg" =>
    /\ \A r \in kg_result \cup kg_ret :
         /\ (r.graph # {} /\ r.error = {}) \/ (r.graph = {} /\ r.error # {})
    /\ \A r \in kg_ret :
         /\ Truthy(calls[1].out) => Truthy(r.rdf)
         /\ ~Truthy(r.rdf) => r.graph = {{}}

C6_Witness ==
  /\ prog = "kg" /\ kg_pc = "done"
  /\ calls[1].out = EmptyStr
  /\ \E r \in kg_ret : r.rdf = EmptyStr /\ r.graph = {{}} /\ r.error = {}

\* C7: forward makes exactly one model call; when the call returned, forward
\* returned too, with the model's text unchanged and, when the parser rejects
\* the text, no graph and the parser's message, and when it accepts the text,
\* the parsed graph and no error.
C7_ParseFailureIsRecovered ==
  prog = "kg" /\ kg_pc # "forward" =>
    /\ Len(calls) = 1
    /\ calls[1].key = <<"DirectRDFExtraction", kg_in.theme, kg_in.text, EmptyStr, EmptyStr>>
    /\ calls[1].ok <=> kg_result # {}
    /\ \A r \in kg_result :
         /\ r.rdf_turtle = calls[1].out
         /\ ~ParseOk(calls[1].out) => r.graph = {} /\ r.error = {ParseError}
         /\ ParseOk(calls[1].out) => r.graph = {ParseGraph(calls[1].out)} /\ r.error = {}

C7_Witness ==
  /\ prog = "kg" /\ kg_pc = "done"
  /\ ~ParseOk(calls[1].out)
  /\ \E r \in kg_ret : r.rdf = calls[1].out /\ r.graph = {} /\ r.error = {ParseError}

----------------------------------------------------------------------------
(* Claims about the page fetchers and the schema / instance pipeline *)

\* a scrape result that carries a non-empty content
HasContent(res) ==
  /\ res.kind \in {"object", "dict"}
  /\ \E c \in res.markdown \cup res.content \cup res.data : Truthy(c)

\* C8: when either crawl_pages_with_firecrawl has returned, every URL has been
\* attempted exactly once, in order, and the number of pages is the number of
\* URLs whose fetch produced content.
C8_PageCountIsSuccessCount ==
  (prog = "crawl" /\ cr_pc = "done") \/ (prog = "schema" /\ sc_pc # "crawl") =>
    /\ [k \in 1..Len(fetched) |-> fetched[k].url] = urls
    /\ Len(crawled) = Cardinality({k \in 1..Len(fetched) : HasContent(fetched[k].res)})

\* C9: in the schema / instance pipeline a fetch response without content is
\* skipped (no page without text is handed on) and the run does not die of it.
C9_NullContentIsSkipped ==
  prog = "schema" =>
    /\ sc_pc # "crawl" => \A k \in 1..Len(crawled) : crawled[k].text # {}
    /\ sc_pc # "TypeError"

\* the items of a dict, without their order
AsMap(d) == {d[n] : n \in 1..Len(d)}

\* the position of the last page with this URL
LastWithUrl(ps, url) == CHOOSE j \in 1..Len(ps) :
  ps[j].url = url /\ \A m \in (j + 1)..Len(ps) : ps[m].url # url

\* C10 as stated: forward over a permutation of the same pages, with the same
\* deterministic stub, yields the same per-URL instances.
C10_PermutationInvariant ==
  prog = "forward" /\ sc_pc = "returned" =>
    \A first \in fwd_first : AsMap(instances) = AsMap(first.instances)

\* C10 as amended: one schema call is made per forward call, before its
\* instance calls; every instance call gets that schema unchanged, the domain
\* and the text and URL of one page, nothing else; each URL's stored instance
\* is the output of the call for the last page with that URL; hence a
\* permutation of pages with pairwise distinct URLs yields the same per-URL
\* instances whenever the schema call, whose input is the pages in list
\* order, returns the same schema.
C10_InstancesDependOnOwnPage ==
  prog \in {"schema", "forward"} =>
    LET S == Idx("ExtractCommonSchema")
        I == Idx("ExtractInstanceData")
        latest == CHOOSE m \in S : \A n \in S : n <= m
    IN /\ Cardinality(S) <= IF fwd_first = {} THEN 1 ELSE 2
       /\ sc_pc \in {"instances", "returned", "done"} /\ sc_ret # {[schema |-> EmptyStr, instances |-> <<>>, pages_processed |-> 0]} =>
            S # {} /\ calls[latest].ok /\ schema = {calls[latest].out}
       /\ \A k \in I :
            /\ \E m \in S : m < k
            /\ LET m == CHOOSE m \in S : m < k /\ \A n \in S : n < k => n <= m
               IN /\ calls[m].ok
                  /\ calls[k].key[2] = calls[m].out
                  /\ calls[k].key[3] = Domain
                  /\ m = latest =>
                       \E j \in 1..Len(fwd_pages) :
                         /\ calls[k].key[4] \in fwd_pages[j].text
                         /\ calls[k].key[5] = fwd_pages[j].url
       /\ sc_pc \in {"returned", "done"} /\ S # {} =>
            /\ {instances[n][1] : n \in 1..Len(instances)} =
                 {fwd_pages[j].url : j \in 1..Len(fwd_pages)}
            /\ \A n \in 1..Len(instances) :
                 LET page == fwd_pages[LastWithUrl(fwd_pages, instances[n][1])]
                 IN \E k \in I :
                      /\ k > latest
                      /\ calls[k].key[2] = calls[latest].out
                      /\ calls[k].key[4] \in page.text
                      /\ calls[k].key[5] = page.url
                      /\ calls[k].out = instances[n][2]
       /\ prog = "forward" /\ sc_pc = "returned" =>
            \A first \in fwd_first :
              /\ first.schema = schema
              /\ \A a, b \in 1..Len(fwd_pages) : fwd_pages[a].url = fwd_pages[b].url => a = b
              => AsMap(instances) = AsMap(first.instances)

C10_Witness ==
  /\ prog = "forward" /\ sc_pc = "returned"
  /\ Len(fwd_pages) >= 2
  /\ \A a, b \in 1..Len(fwd_pages) : fwd_pages[a].url = fwd_pages[b].url => a = b
  /\ \E first \in fwd_first :
       /\ first.schema = schema
       /\ first.instances # instances
       /\ AsMap(instances) = AsMap(first.instances)
       /\ \E a, b \in AsMap(instances) : a[2] # b[2]

----------------------------------------------------------------------------
(* Claims about the result of build_landscape_knowledge_graph *)

\* C15: once forward has returned, build_landscape_knowledge_graph returns
\* too (it has no raised state of its own).  When the canonical text does not
\* parse, or the format has no serializer, the returned canonical_graph is
\* forward's canonical text unchanged and stats holds the error message and
\* nothing else; when the text parses and the format is turtle, the returned
\* canonical_graph is the canonical text verbatim and stats holds
\* total_triples and pages_processed and no error.
C15_ParseFailureReturnsRawText ==
  prog = "landscape" =>
    /\ pc = "done" <=> ret # {}
    /\ pc = "done" => result # {} /\ \A k \in 1..Len(calls) : calls[k].ok
    /\ \A out \in ret : \A r \in result :
         /\ ~ParseOk(r.canonical_graph) =>
              /\ out.canonical_graph = r.canonical_graph
              /\ out.stats = [total_triples |-> {}, pages_processed |-> {},
                              error |-> {ParseError}]
         /\ ParseOk(r.canonical_graph) /\ output_format \notin Formats =>
              /\ out.canonical_graph = r.canonical_graph
              /\ out.stats = [total_triples |-> {}, pages_processed |-> {},
                              error |-> {SerializeError}]
         /\ ParseOk(r.canonical_graph) /\ output_format = "turtle" =>
              /\ out.canonical_graph = r.canonical_graph
              /\ out.stats = [total_triples |-> {Cardinality(ParseGraph(r.canonical_graph))},
                              pages_processed |-> {Len(pages)},
                              error |-> {}]

C15_Witness ==
  /\ prog = "landscape" /\ pc = "done" /\ output_format = "xml"
  /\ \E out \in ret :
       /\ out.canonical_graph = <<"not turtle">>
       /\ out.stats.error = {ParseError}
       /\ out.stats.total_triples = {}
  /\ \E r \in result : r.canonical_graph = <<"not turtle">>


----------------------------------------------------------------------------
(* Claims about the output format of extract_knowledge_graph *)

\* C16: when extract_knowledge_graph has returned, the model's text parsed
\* and output_format is not turtle, the returned rdf is the parsed graph
\* serialized in output_format, also for a graph without triples.
C16_RdfInRequestedFormat ==
  prog = "kg" /\ kg_pc = "done" =>
    \A r \in kg_ret :
      ParseOk(calls[1].out) /\ kg_in.output_format # "turtle" =>
        r.rdf = Serialize(ParseGraph(calls[1].out), kg_in.output_format)


----------------------------------------------------------------------------
(* Claims about crawl_pages_with_firecrawl of landscape.py *)

\* C17: at every point of landscape.py's crawl the list of pages is the list
\* of the URLs fetched so far whose result carried a non-empty content, in
\* input order and with duplicates kept: the n-th page has the URL of the
\* n-th such fetch and that fetch's non-empty content as text; a fetch that
\* raised, returned nothing, an empty or missing content or a value of
\* another type adds no page.  At the return every URL has been fetched.
C17_PagesAreSubsequenceWithText ==
  prog = "crawl" =>
    LET kept == {k \in 1..Len(fetched) : HasContent(fetched[k].res)}
    IN /\ Len(fetched) <= Len(urls)
       /\ \A k \in 1..Len(fetched) : fetched[k].url = urls[k]
       /\ cr_pc = "done" => Len(fetched) = Len(urls)
       /\ Len(crawled) = Cardinality(kept)
       /\ \A n \in 1..Len(crawled) :
            LET k == AtRank(kept, n)
            IN /\ crawled[n].url = urls[k]
               /\ crawled[n].text # {}
               /\ \A t \in crawled[n].text :
                    Truthy(t) /\ t \in fetched[k].res.markdown \cup fetched[k].res.content
                                         \cup fetched[k].res.data
       /\ \A k \in 1..Len(fetched) :
            \/ fetched[k].res.kind \in {"raise", "none", "other"}
            \/ \A c \in fetched[k].res.markdown \cup fetched[k].res.content
                          \cup fetched[k].res.data : ~Truthy(c)
            => k \notin kept

C17_Witness ==
  /\ prog = "crawl" /\ cr_pc = "done"
  /\ Len(urls) = 2 /\ urls[1] = urls[2]
  /\ fetched[1].res.kind = "object" /\ fetched[1].res.markdown = {EmptyStr}
  /\ fetched[2].res.kind = "dict" /\ fetched[2].res.markdown = {EmptyStr}
  /\ Len(crawled) = 1
  /\ crawled[1].url = urls[2] /\ crawled[1].text = {Content(urls[2])}


----------------------------------------------------------------------------
(* Claims about the frame of build_landscape_schema_and_instances *)

----------------------------------------------------------------------------
(* Claims about the files build_landscape_schema_and_instances writes *)

\* the paths of the files written
Paths == {files[n][1] : n \in 1..Len(files)}

\* the paths of the instance files written
InstancePaths == Paths \ {PathJoin(OutputDir, SchemaFilename), PathJoin(OutputDir, MergedFilename)}

MergedLines ==
  LET n == CHOOSE n \in 1..Len(files) : files[n][1] = PathJoin(OutputDir, MergedFilename)
  IN Split(files[n][2], "\n")

\* the line is an import statement
IsImportLine(line) == Strip(line) # <<>> /\ Strip(line)[1] = "<> owl:imports <./"

\* the line is a prefix declaration, indented or not
IsPrefixLine(line) == Strip(line) # <<>> /\ Strip(line)[1] = "@prefix"

\* C12: once the merged file is written it holds exactly one import statement
\* and no prefix declaration twice, whatever the instance texts are.
C12_OneImportNoDuplicatePrefix ==
  prog = "schema" /\ sc_pc = "done" /\ crawled # <<>> =>
    /\ Cardinality({k \in 1..Len(MergedLines) : IsImportLine(MergedLines[k])}) = 1
    /\ \A a, b \in 1..Len(MergedLines) :
         IsPrefixLine(MergedLines[a]) /\ Strip(MergedLines[a]) = Strip(MergedLines[b]) => a = b


----------------------------------------------------------------------------
(* Claims about SimpleAccumulator *)

RECURSIVE Acc(_)
\* graph as the first n calls of the log leave it: a merge call's answer
\* replaces it, an extraction call's answer becomes it when it was empty
Acc(n) ==
  IF n = 0 THEN EmptyStr
  ELSE IF calls[n].key[1] = "SimpleMergeRDF" THEN calls[n].out
  ELSE IF Truthy(Acc(n - 1)) THEN Acc(n - 1)
  ELSE calls[n].out

\* C18: the j-th extraction call is made for the j-th page, so there is one
\* per page, in input order, once forward has returned.  A merge call is
\* made only right after a page's extraction call, with that call's answer
\* as new_content and the graph accumulated so far, which is not empty, as
\* current_graph; an extraction call that found the graph empty is followed
\* by no merge call, and its answer becomes the graph, which stays empty when
\* the answer is empty.  Hence the first page is never merged and there are
\* at most N-1 merge calls for N pages.  forward returns the accumulated graph.
C18_MergeOnlyOntoNonEmptyGraph ==
  prog = "simple" =>
    LET E == Idx("SimpleExtractRDF")
        M == Idx("SimpleMergeRDF")
    IN /\ \A k \in E :
            /\ Rank(E, k) <= Len(sa_pages)
            /\ calls[k].key = SimpleExtractKey(sa_pages[Rank(E, k)])
            /\ k > 1 /\ calls[k - 1].key[1] = "SimpleExtractRDF" =>
                 ~Truthy(Acc(k - 2)) /\ Acc(k - 1) = calls[k - 1].out
       /\ \A k \in M :
            /\ k > 1
            /\ calls[k - 1].key[1] = "SimpleExtractRDF" /\ calls[k - 1].ok
            /\ Truthy(calls[k].key[2])
            /\ calls[k].key = <<"SimpleMergeRDF", Acc(k - 1), calls[k - 1].out, Domain, EmptyStr>>
       /\ 1 \notin M
       /\ Len(sa_pages) = 0 => M = {}
       /\ Len(sa_pages) > 0 => Cardinality(M) <= Len(sa_pages) - 1
       /\ sa_pc = "extract" => sa_graph = Acc(Len(calls)) /\ Cardinality(E) = sa_k - 1
       /\ sa_pc = "merge" /\ ~Truthy(sa_graph) => Acc(Len(calls)) = sa_extracted
       /\ sa_pc = "done" =>
            /\ Cardinality(E) = Len(sa_pages)
            /\ sa_final = {Acc(Len(calls))}
            /\ \A k \in 1..Len(calls) : calls[k].ok

C18_Witness ==
  /\ prog = "simple" /\ sa_pc = "done"
  /\ Len(sa_pages) = 4
  /\ Len(calls) = 5
  /\ calls[1].out = EmptyStr /\ calls[2].out = EmptyStr /\ Truthy(calls[3].out)
  /\ Idx("SimpleMergeRDF") = {5}
  /\ sa_final = {calls[5].out}


----------------------------------------------------------------------------
(* Claims about slugify *)

RECURSIVE AlnumRun(_)
\* the longest prefix of value made of characters of [a-zA-Z0-9]
AlnumRun(value) ==
  IF value # <<>> /\ IsAlnum(Head(value)) THEN <<Head(value)>> \o AlnumRun(Tail(value)) ELSE <<>>

RECURSIVE Words(_)
\* the maximal runs of characters of [a-zA-Z0-9] in value, in order
Words(value) ==
  IF value = <<>> THEN <<>>
  ELSE IF IsAlnum(Head(value))
       THEN <<AlnumRun(value)>> \o Words(SubSeq(value, Len(AlnumRun(value)) + 1, Len(value)))
       ELSE Words(Tail(value))

\* C13: slugify returns the lowercased argument with every maximal run of
\* characters outside [a-zA-Z0-9] replaced by one underscore and no
\* underscore at either end, that is its alphanumeric words joined by "_";
\* the result is made of a-z, 0-9 and "_" only and has no two underscores in
\* a row; "AI Writing Tools!" gives "ai_writing_tools".
C13_SlugIsWordsJoinedByUnderscore ==
  prog = "slugify" =>
    \A value \in slug_in : \A slug \in slug_out :
      /\ slug = Join(<<"_">>, Words(LowerChars(value)))
      /\ \A k \in 1..Len(slug) :
           \/ slug[k] = "_"
           \/ slug[k] \in AsciiDigits
           \/ \E n \in 1..Len(AsciiLower) : AsciiLower[n] = slug[k]
      /\ \A k \in 1..(Len(slug) - 1) : ~(slug[k] = "_" /\ slug[k + 1] = "_")
      /\ slug # <<>> => slug[1] # "_" /\ slug[Len(slug)] # "_"
      /\ value = SlugExample =>
           slug = <<"a", "i", "_", "w", "r", "i", "t", "i", "n", "g", "_", "t", "o", "o", "l", "s">>

C13_Witness ==
  /\ prog = "slugify"
  /\ slug_in = {<<"_", "A", "!", "\t">>}
  /\ slug_out = {<<"a">>}


----------------------------------------------------------------------------
(* Claims about KnowledgeGraphProgram *)

\* C14: for every triple the loop has handled, the object node added to the
\* graph is a literal with the object's text when the object contains a
\* whitespace character, and the node base namespace + slug otherwise.
C14_WhitespaceObjectIsLiteral ==
  prog = "openai" =>
    \A k \in 1..Len(ko_added) :
      LET object == ko_triples[k].object
      IN IF \E n \in 1..Len(object) : object[n] \in Whitespace
         THEN ko_added[k][3] = [kind |-> "Literal", value |-> object]
         ELSE ko_added[k][3] = [kind |-> "URIRef", value |-> Base \o slugify(object)]


====
